---- MODULE Spec2Model ----
(***************************************************************************)
(* The POST /fetch handler of the IMAP proxy (src/index.js): one request   *)
(* driven through connect, openBox, search, the per-item loop with its     *)
(* bounded part fetches, the response and the finally block.               *)
(*                                                                         *)
(* JavaScript values are encoded as follows.                               *)
(*   - null / undefined of a string-valued local is the string NULL;       *)
(*     the empty string "" is kept apart from it, both are falsy.          *)
(*   - a node of attributes.struct is a record                             *)
(*       [kind, type, subtype, partID, parts]                              *)
(*     kind "obj": an object; parts is <<>> when it has no parts property  *)
(*                 and <<v>> when its parts property is v;                 *)
(*     kind "arr": an array; parts holds its elements;                     *)
(*     kind "null": null or undefined; kind "prim": a truthy primitive;    *)
(*     kind "absent": the struct attribute is missing;                     *)
(*     kind "cycle": a parts value that is an enclosing node again;        *)
(*     kind "thrown": not a value, the call raised to its caller.          *)
(***************************************************************************)
EXTENDS Integers, Sequences, FiniteSets, TLC

\* ------------------------------------------------------------------ bounds
MaxItems == 2        \* longest search result
MaxLimit == 1        \* largest numeric limit of a request
MaxParts == 2        \* longest root array of a structure given to findBestPart

\* --------------------------------------------------------------- constants
TimeoutMs == 5000    \* the bound of a part fetch, in milliseconds

NULL == "<null>"
TimeoutMessage == "Body fetch timeout"
NoTextBody == "[No Text Body]"
NoHtml == "(No HTML)"
ParsingFailed == "(Parsing Failed)"
Unavailable == "[Content could not be fetched automatically. Please check mail server.]"
DefaultPartID == "1"

\* JavaScript truthiness of a string-or-null value
Truthy(v) == v # NULL /\ v # ""

\* fetchBodies !== false
shouldFetchBodiesOf(fetchBodies) == fetchBodies # "false"

\* ------------------------------------------------------- message structure
Obj(t, st, id, ps) == [kind |-> "obj", type |-> t, subtype |-> st, partID |-> id, parts |-> ps]
Arr(elems) == [kind |-> "arr", type |-> "", subtype |-> "", partID |-> "", parts |-> elems]
NullNode == [kind |-> "null", type |-> "", subtype |-> "", partID |-> "", parts |-> <<>>]
PrimNode == [kind |-> "prim", type |-> "", subtype |-> "", partID |-> "", parts |-> <<>>]
AbsentStruct == [kind |-> "absent", type |-> "", subtype |-> "", partID |-> "", parts |-> <<>>]
CycleNode == [kind |-> "cycle", type |-> "", subtype |-> "", partID |-> "", parts |-> <<>>]
ThrownNode == [kind |-> "thrown", type |-> "", subtype |-> "", partID |-> "", parts |-> <<>>]

\* part.parts is truthy: only an object carries a parts property
HasParts(n) == n.kind = "obj" /\ Len(n.parts) = 1 /\ n.parts[1].kind # "null"

NoThrow == [ok |-> TRUE, flat |-> <<>>]

RECURSIVE traverse(_)
RECURSIVE traverseEach(_, _)
\* traverse(p): the parts pushed to flatParts, and whether the walk ended
\* without a TypeError (reading .parts of null or undefined) or a RangeError
\* (the call stack exhausted by a parts value that leads back to its owner)
traverse(p) ==
    IF p.kind = "cycle" THEN [ok |-> FALSE, flat |-> <<>>]
    ELSE IF p.kind = "arr" THEN traverseEach(p.parts, 1)
    ELSE IF p.kind = "obj" THEN
        LET sub == IF HasParts(p) THEN traverse(p.parts[1]) ELSE NoThrow
        IN  [ok |-> sub.ok, flat |-> <<p>> \o sub.flat]
    ELSE NoThrow

traverseEach(elems, i) ==
    IF i > Len(elems) THEN NoThrow
    ELSE LET part == elems[i] IN
        IF part.kind = "null" THEN [ok |-> FALSE, flat |-> <<part>>]
        ELSE LET sub  == IF HasParts(part) THEN traverse(part.parts[1]) ELSE NoThrow
                 rest == IF sub.ok THEN traverseEach(elems, i + 1)
                                   ELSE [ok |-> FALSE, flat |-> <<>>]
             IN  [ok |-> sub.ok /\ rest.ok, flat |-> <<part>> \o sub.flat \o rest.flat]

\* mutant: the last element satisfying the test is taken
FindPart_m(flat, t, st) ==
    LET hits == {i \in 1..Len(flat) : flat[i].type = t /\ flat[i].subtype = st}
    IN  IF hits = {} THEN NullNode
        ELSE flat[CHOOSE i \in hits : \A j \in hits : i >= j]

\* Array.prototype.find: the first element satisfying the test, else NullNode
FindPart(flat, t, st) ==
    LET hits == {i \in 1..Len(flat) : flat[i].type = t /\ flat[i].subtype = st}
    IN  IF hits = {} THEN NullNode
        ELSE flat[CHOOSE i \in hits : \A j \in hits : i <= j]

\* mutant: no try around the traversal
findBestPart_m(struct) ==
    IF struct.kind \in {"absent", "null"} THEN NullNode
    ELSE LET walk == traverse(struct) IN
        IF ~walk.ok THEN ThrownNode
        ELSE LET htmlPart == FindPart(walk.flat, "text", "html")
                 textPart == FindPart(walk.flat, "text", "plain")
             IN  IF htmlPart.kind # "null" THEN htmlPart
                 ELSE IF textPart.kind # "null" THEN textPart
                 ELSE NullNode

\* lines 35-67. The find calls of lines 59 and 63 stand outside the try: the
\* test p.type raises on a null element of flatParts.
findBestPart(struct) ==
    IF struct.kind \in {"absent", "null"} THEN NullNode
    ELSE LET walk == traverse(struct) IN
        IF ~walk.ok THEN NullNode
        ELSE IF \E i \in 1..Len(walk.flat) : walk.flat[i].kind = "null" THEN ThrownNode
        ELSE LET htmlPart == FindPart(walk.flat, "text", "html")
                 textPart == FindPart(walk.flat, "text", "plain")
             IN  IF htmlPart.kind # "null" THEN htmlPart
                 ELSE IF textPart.kind # "null" THEN textPart
                 ELSE NullNode

\* mutant: the partID of the selected part is not looked at
Usable_m(bestPart) == bestPart.kind # "null"

\* bestPart && bestPart.partID
Usable(bestPart) == bestPart.kind # "null" /\ Truthy(bestPart.partID)

\* item.attributes && item.attributes.struct
HasStruct(item) == item.struct.kind \notin {"absent", "null"}

\* ------------------------------------------------------------ search results
\* One search result item: uid is its position in the server's (oldest-first)
\* order; hasParts is FALSE for an item without a parts array, on which
\* item.parts.find raises.
Item(u, st, hp) == [uid |-> u, struct |-> st, hasParts |-> hp]

HtmlStruct ==
    Arr(<<Obj("multipart", "alternative", "",
              <<Arr(<<Obj("text", "plain", "1.1", <<>>), Obj("text", "html", "1.2", <<>>)>>)>>)>>)
HtmlNoIdStruct == Arr(<<Obj("text", "html", "", <<>>)>>)
NoTextStruct == Arr(<<Obj("image", "png", "2", <<>>)>>)

StructPool == {AbsentStruct, HtmlStruct, HtmlNoIdStruct, NoTextStruct}

ItemShapes == [struct : StructPool, hasParts : {TRUE}]
                \cup [struct : {AbsentStruct}, hasParts : {FALSE}]

SearchResultSets ==
    UNION {{[i \in 1..n |-> Item(i, sh[i].struct, sh[i].hasParts)] : sh \in [1..n -> ItemShapes]}
           : n \in 0..MaxItems}

\* --------------------------------------- structures for findBestPart alone
Part(t, st, id) == Obj(t, st, id, <<>>)
Multi(children) == Obj("multipart", "mixed", "", <<Arr(children)>>)

\* what a root array may hold: leaf parts, null, a primitive, a multipart with
\* its parts array, a multipart whose array holds null, a node whose parts is
\* an object instead of an array, a node whose parts leads back to itself
NodePool ==
    {Part("text", "html", "1"), Part("text", "html", "2"),
     Part("text", "plain", "3"), Part("image", "png", "4"),
     NullNode, PrimNode,
     Multi(<<Part("text", "plain", "5"), Part("text", "html", "6")>>),
     Multi(<<NullNode>>),
     Obj("multipart", "mixed", "", <<Part("text", "html", "7")>>),
     Obj("multipart", "mixed", "", <<CycleNode>>)}

Structures ==
    {AbsentStruct, NullNode, PrimNode, Part("text", "plain", "3")}
        \cup {Arr(elems) : elems \in UNION {[1..n -> NodePool] : n \in 0..MaxParts}}

\* the request's limit: <<>> when absent, <<k>> when the number k
Limits == {<<>>} \cup {<<k>> : k \in 0..MaxLimit}
LimitTruthy(lim) == Len(lim) = 1 /\ lim[1] # 0

\* Array.prototype.reverse
Reverse(s) == [i \in 1..Len(s) |-> s[Len(s) + 1 - i]]

\* if (limit && searchResults.length > limit) searchResults = searchResults.slice(0, limit)
ApplyLimit(s, lim) ==
    IF LimitTruthy(lim) /\ Len(s) > lim[1] THEN SubSeq(s, 1, lim[1]) ELSE s

\* ------------------------------------------------------------ part contents
\* What connection.getPartData delivers here: empty content, an html body
\* "H", a body "X" that simpleParser rejects, a body "N" in which it finds
\* neither text nor html ("T" is a plain-text body).
Contents == {"", "H", "X", "N"}
\* What it fails with: an Error, given by its message, which may be empty.
Reasons == {"ECONNRESET", ""}

\* simpleParser(content)
Parse(c) ==
    IF c = "X" THEN [ok |-> FALSE, text |-> NULL, html |-> NULL, textAsHtml |-> NULL]
    ELSE IF c = "H" THEN [ok |-> TRUE, text |-> "text(H)", html |-> "html(H)", textAsHtml |-> "<p>text(H)</p>"]
    ELSE IF c = "N" THEN [ok |-> TRUE, text |-> NULL, html |-> NULL, textAsHtml |-> NULL]
    ELSE [ok |-> TRUE, text |-> "text(T)", html |-> NULL, textAsHtml |-> "<p>text(T)</p>"]

\* mutant: the value is pushed as it is
OrEmpty_m(v) == v

\* v || ""
OrEmpty(v) == IF Truthy(v) THEN v ELSE ""
\* a || b
OrElse(a, b) == IF Truthy(a) THEN a ELSE b

\* -------------------------------------------------------------------- state
VARIABLES
    pc,                 \* where the handler stands
    shouldFetchBodies,  \* line 91
    limit,              \* line 89
    connection,         \* "null", "open" or "ended"
    searchResults,      \* line 111, reversed and limited
    idx,                \* position of the for-of loop in searchResults
    processedMessages,  \* line 123
    partData,           \* line 141
    fetchError,         \* line 142
    fetches,            \* every getPartDataWithTimeout call, in call order
    responses,          \* what was sent on res, in order
    raised,             \* uids logged by the per-item catch, in order
    found,              \* how many items the search returned (history)
    failed,             \* what made the request fail, "none" so far (history)
    endCalls,           \* the connection.end() calls made, each by how it ended
    parserCalls,        \* the simpleParser calls made: uid and content (history)
    callStruct,         \* the argument of a findBestPart call taken on its own
    callPc,             \* "idle", or "called" / "returned" for that call
    callResult          \* what that call returned

vars == <<pc, shouldFetchBodies, limit, connection, searchResults, idx,
          processedMessages, partData, fetchError, fetches, responses, raised,
          found, failed, endCalls, parserCalls, callStruct, callPc, callResult>>

\* the variables of a findBestPart call taken on its own
callVars == <<callStruct, callPc, callResult>>
handlerVars == <<pc, shouldFetchBodies, limit, connection, searchResults, idx,
                 processedMessages, partData, fetchError, fetches, responses,
                 raised, found, failed, endCalls, parserCalls>>

HandlerInit ==
    /\ pc = "start"
    /\ shouldFetchBodies = TRUE
    /\ limit = <<>>
    /\ connection = "null"
    /\ searchResults = <<>>
    /\ idx = 1
    /\ processedMessages = <<>>
    /\ partData = NULL
    /\ fetchError = NULL
    /\ fetches = <<>>
    /\ responses = <<>>
    /\ raised = <<>>
    /\ found = 0
    /\ failed = "none"
    /\ endCalls = <<>>
    /\ parserCalls = <<>>

Init ==
    /\ HandlerInit
    /\ callStruct = AbsentStruct
    /\ callPc = "idle"
    /\ callResult = NullNode

\* res.json / res.status(..).json
SuccessResponse(msgs) == [status |-> 200, success |-> TRUE, messages |-> msgs, count |-> Len(msgs)]
FailureResponse(code) == [status |-> code, success |-> FALSE, messages |-> <<>>, count |-> 0]
headersSent == Len(responses) > 0

\* ------------------------------------------------- getPartDataWithTimeout
\* new Promise(...): the timer is armed and connection.getPartData is called
NewFetch(item, kind, partID) ==
    [uid |-> item.uid, kind |-> kind, partID |-> partID,
     promise |-> "pending", value |-> NULL,
     timer |-> "armed", underlying |-> "outstanding"]

\* mutant: a late resolve replaces the settled outcome
Resolve_m(f, data) == [f EXCEPT !.promise = "resolved", !.value = data]

\* resolve(data) / reject(err): a settled promise ignores later settlements
Resolve(f, data) ==
    IF f.promise = "pending" THEN [f EXCEPT !.promise = "resolved", !.value = data] ELSE f
Reject(f, reason) ==
    IF f.promise = "pending" THEN [f EXCEPT !.promise = "rejected", !.value = reason] ELSE f

\* clearTimeout(timer): nothing to clear once the timer has fired
ClearTimeout(f) == IF f.timer = "armed" THEN [f EXCEPT !.timer = "cleared"] ELSE f

\* .then(data => { clearTimeout(timer); resolve(data); })
OnData(f, data) == Resolve(ClearTimeout([f EXCEPT !.underlying = "answered"]), data)
\* .catch(err => { clearTimeout(timer); reject(err); })
OnError(f, reason) == Reject(ClearTimeout([f EXCEPT !.underlying = "answered"]), reason)
\* mutant: the timer callback does not reject
OnTimer_m(f) == [f EXCEPT !.timer = "fired"]

\* setTimeout(() => reject(new Error("Body fetch timeout")), timeoutMs)
OnTimer(f) == Reject([f EXCEPT !.timer = "fired"], TimeoutMessage)

\* the FetchOutcome of a call
Outcome(f) ==
    IF f.promise = "pending" THEN "pending"
    ELSE IF f.promise = "resolved" THEN "success"
    ELSE IF f.timer = "fired" THEN "timeout"
    ELSE "fetchError"

\* ----------------------------------------------------------- the handler
\* mutant: the configuration check answers but does not return
Start_m ==
    /\ pc = "start"
    /\ \E configOk \in BOOLEAN, fetchBodies \in {"absent", "true", "false"}, lim \in Limits :
        /\ shouldFetchBodies' = shouldFetchBodiesOf(fetchBodies)
        /\ limit' = lim
        /\ IF ~configOk
             THEN /\ responses' = Append(responses, FailureResponse(400))
                  /\ failed' = "config"
                  /\ pc' = "connecting"
             ELSE /\ responses' = responses
                  /\ failed' = failed
                  /\ pc' = "connecting"
    /\ UNCHANGED <<connection, searchResults, idx, processedMessages, partData,
                   fetchError, fetches, raised>>
    /\ UNCHANGED found
    /\ UNCHANGED <<endCalls, parserCalls>>
    /\ UNCHANGED callVars

\* lines 88-99: destructure the body, check the configuration, call connect
Start ==
    /\ pc = "start"
    /\ \E configOk \in BOOLEAN, fetchBodies \in {"absent", "true", "false"}, lim \in Limits :
        /\ shouldFetchBodies' = shouldFetchBodiesOf(fetchBodies)
        /\ limit' = lim
        /\ IF ~configOk
             THEN /\ responses' = Append(responses, FailureResponse(400))
                  /\ failed' = "config"
                  /\ pc' = "done"
             ELSE /\ responses' = responses
                  /\ failed' = failed
                  /\ pc' = "connecting"
    /\ UNCHANGED <<connection, searchResults, idx, processedMessages, partData,
                   fetchError, fetches, raised>>
    /\ UNCHANGED found
    /\ UNCHANGED <<endCalls, parserCalls>>
    /\ UNCHANGED callVars

\* line 99 resumes with a connection; line 100 calls openBox
ConnectResolves ==
    /\ pc = "connecting"
    /\ connection' = "open"
    /\ pc' = "opening"
    /\ UNCHANGED <<shouldFetchBodies, limit, searchResults, idx, processedMessages,
                   partData, fetchError, fetches, responses, raised>>
    /\ UNCHANGED <<found, failed>>
    /\ UNCHANGED <<endCalls, parserCalls>>
    /\ UNCHANGED callVars

\* line 99 throws: connection stays null
ConnectRejects ==
    /\ pc = "connecting"
    /\ pc' = "catch"
    /\ failed' = "connect"
    /\ UNCHANGED <<shouldFetchBodies, limit, connection, searchResults, idx,
                   processedMessages, partData, fetchError, fetches, responses, raised>>
    /\ UNCHANGED found
    /\ UNCHANGED <<endCalls, parserCalls>>
    /\ UNCHANGED callVars

\* line 100 resumes; lines 102-111 call search
OpenBoxResolves ==
    /\ pc = "opening"
    /\ pc' = "searching"
    /\ UNCHANGED <<shouldFetchBodies, limit, connection, searchResults, idx,
                   processedMessages, partData, fetchError, fetches, responses, raised>>
    /\ UNCHANGED <<found, failed>>
    /\ UNCHANGED <<endCalls, parserCalls>>
    /\ UNCHANGED callVars

OpenBoxRejects ==
    /\ pc = "opening"
    /\ pc' = "catch"
    /\ failed' = "openBox"
    /\ UNCHANGED <<shouldFetchBodies, limit, connection, searchResults, idx,
                   processedMessages, partData, fetchError, fetches, responses, raised>>
    /\ UNCHANGED found
    /\ UNCHANGED <<endCalls, parserCalls>>
    /\ UNCHANGED callVars

\* lines 111-123: the search returns; reverse, limit, start the loop
SearchResolves ==
    /\ pc = "searching"
    /\ \E results \in SearchResultSets :
        /\ searchResults' = ApplyLimit(Reverse(results), limit)
        /\ found' = Len(results)
    /\ processedMessages' = <<>>
    /\ idx' = 1
    /\ pc' = "loop"
    /\ UNCHANGED <<shouldFetchBodies, limit, connection, partData, fetchError,
                   fetches, responses, raised>>
    /\ UNCHANGED failed
    /\ UNCHANGED <<endCalls, parserCalls>>
    /\ UNCHANGED callVars

SearchRejects ==
    /\ pc = "searching"
    /\ pc' = "catch"
    /\ failed' = "search"
    /\ UNCHANGED <<shouldFetchBodies, limit, connection, searchResults, idx,
                   processedMessages, partData, fetchError, fetches, responses, raised>>
    /\ UNCHANGED found
    /\ UNCHANGED <<endCalls, parserCalls>>
    /\ UNCHANGED callVars

\* mutant: the fallback is issued whenever no error was recorded
NeedsFallback_m(pd, fe) == ~Truthy(fe)

\* line 157: if (!partData && !fetchError)
NeedsFallback(pd, fe) == ~Truthy(pd) /\ ~Truthy(fe)

\* lines 183-191: processedMessages.push({...})
Record(item, bodyText, bodyHtml) ==
    [uid |-> item.uid, bodyText |-> OrEmpty(bodyText), bodyHtml |-> OrEmpty(bodyHtml)]

\* mutant: the per-item catch leaves the loop instead of going on
ItemCatch_m(item) ==
    /\ raised' = Append(raised, item.uid)
    /\ idx' = Len(searchResults) + 1
    /\ pc' = "loop"
    /\ processedMessages' = processedMessages
    /\ partData' = NULL
    /\ fetchError' = NULL

\* mutant: there is no per-item catch, the raise reaches the outer catch
ItemCatch_m2(item) ==
    /\ raised' = Append(raised, item.uid)
    /\ idx' = idx
    /\ pc' = "catch"
    /\ processedMessages' = processedMessages
    /\ partData' = NULL
    /\ fetchError' = NULL

\* lines 193-196: the per-item catch logs and goes on to the next item; the
\* block-scoped partData and fetchError of the item are gone
ItemCatch(item) ==
    /\ raised' = Append(raised, item.uid)
    /\ idx' = idx + 1
    /\ pc' = "loop"
    /\ processedMessages' = processedMessages
    /\ partData' = NULL
    /\ fetchError' = NULL

\* lines 157-160: the fallback call on the fixed default part, when due
FallbackOrDecode(item, pd, fe) ==
    IF NeedsFallback(pd, fe)
      THEN /\ fetches' = Append(fetches, NewFetch(item, "fallback", DefaultPartID))
           /\ pc' = "awaitFallback"
      ELSE /\ fetches' = fetches
           /\ pc' = "decode"

\* mutant: the body-fetch flag is not looked at
BeginItem_m ==
    /\ pc = "loop"
    /\ idx <= Len(searchResults)
    /\ LET item == searchResults[idx]
           bestPart == findBestPart(item.struct)
       IN  IF ~item.hasParts
             THEN /\ ItemCatch(item)
                  /\ UNCHANGED fetches
           ELSE /\ partData' = NULL
                /\ fetchError' = NULL
                /\ IF HasStruct(item) /\ Usable(bestPart)
                     THEN /\ fetches' = Append(fetches, NewFetch(item, "primary", bestPart.partID))
                          /\ pc' = "awaitPrimary"
                     ELSE FallbackOrDecode(item, NULL, NULL)
                /\ UNCHANGED <<idx, processedMessages, raised>>
    /\ UNCHANGED <<shouldFetchBodies, limit, connection, searchResults, responses>>
    /\ UNCHANGED <<found, failed>>
    /\ UNCHANGED <<endCalls, parserCalls>>
    /\ UNCHANGED callVars

\* lines 125-160, up to the first await of the item
BeginItem ==
    /\ pc = "loop"
    /\ idx <= Len(searchResults)
    /\ LET item == searchResults[idx]
           bestPart == findBestPart(item.struct)
       IN  IF ~item.hasParts
             THEN /\ ItemCatch(item)
                  /\ UNCHANGED fetches
           ELSE IF ~shouldFetchBodies
             THEN /\ processedMessages' = Append(processedMessages, Record(item, NoTextBody, NoHtml))
                  /\ idx' = idx + 1
                  /\ UNCHANGED <<pc, partData, fetchError, fetches, raised>>
           ELSE /\ partData' = NULL
                /\ fetchError' = NULL
                /\ IF HasStruct(item) /\ Usable(bestPart)
                     THEN /\ fetches' = Append(fetches, NewFetch(item, "primary", bestPart.partID))
                          /\ pc' = "awaitPrimary"
                     ELSE FallbackOrDecode(item, NULL, NULL)
                /\ UNCHANGED <<idx, processedMessages, raised>>
    /\ UNCHANGED <<shouldFetchBodies, limit, connection, searchResults, responses>>
    /\ UNCHANGED <<found, failed>>
    /\ UNCHANGED <<endCalls, parserCalls>>
    /\ UNCHANGED callVars

\* the call the handler is awaiting: the last one issued
Awaited == fetches[Len(fetches)]

\* mutant: the call is not awaited
Settled_m(f) == TRUE

\* await: the handler resumes once the promise is settled
Settled(f) == f.promise # "pending"

\* lines 148-160: the primary await resumes
AfterPrimary ==
    /\ pc = "awaitPrimary"
    /\ Settled(Awaited)
    /\ LET item == searchResults[idx]
           f == Awaited
       IN  IF f.promise = "resolved"
             THEN /\ partData' = f.value
                  /\ fetchError' = fetchError
                  /\ FallbackOrDecode(item, f.value, fetchError)
                  /\ UNCHANGED <<idx, raised, processedMessages>>
           ELSE /\ fetchError' = f.value
                /\ partData' = partData
                /\ FallbackOrDecode(item, partData, f.value)
                /\ UNCHANGED <<idx, raised, processedMessages>>
    /\ UNCHANGED <<shouldFetchBodies, limit, connection, searchResults, responses>>
    /\ UNCHANGED <<found, failed>>
    /\ UNCHANGED <<endCalls, parserCalls>>
    /\ UNCHANGED callVars

\* mutant: a failed fallback is tried again
AfterFallback_m ==
    /\ pc = "awaitFallback"
    /\ Settled(Awaited)
    /\ LET item == searchResults[idx]
           f == Awaited
       IN  IF f.promise = "resolved"
             THEN /\ partData' = f.value
                  /\ pc' = "decode"
                  /\ UNCHANGED <<idx, raised, fetchError, processedMessages, fetches>>
           ELSE /\ pc' = "awaitFallback"
                /\ fetches' = Append(fetches, NewFetch(item, "fallback", DefaultPartID))
                /\ UNCHANGED <<partData, idx, raised, fetchError, processedMessages>>
    /\ UNCHANGED <<shouldFetchBodies, limit, connection, searchResults, responses>>
    /\ UNCHANGED <<found, failed>>
    /\ UNCHANGED <<endCalls, parserCalls>>
    /\ UNCHANGED callVars

\* lines 160-164: the fallback await resumes
AfterFallback ==
    /\ pc = "awaitFallback"
    /\ Settled(Awaited)
    /\ LET item == searchResults[idx]
           f == Awaited
       IN  IF f.promise = "resolved"
             THEN /\ partData' = f.value
                  /\ pc' = "decode"
                  /\ UNCHANGED <<idx, raised, fetchError, processedMessages>>
           ELSE /\ pc' = "decode"
                /\ UNCHANGED <<partData, idx, raised, fetchError, processedMessages>>
    /\ UNCHANGED <<shouldFetchBodies, limit, connection, searchResults, fetches,
                   responses>>
    /\ UNCHANGED <<found, failed>>
    /\ UNCHANGED <<endCalls, parserCalls>>
    /\ UNCHANGED callVars

\* mutant: a decoding failure leaves no marker
Bodies_m(pd) ==
    IF Truthy(pd)
      THEN LET parsed == Parse(pd) IN
           IF parsed.ok
             THEN [text |-> parsed.text, html |-> OrElse(parsed.html, parsed.textAsHtml)]
             ELSE [text |-> "", html |-> ""]
      ELSE [text |-> Unavailable, html |-> ""]

\* mutant: content that could not be fetched leaves no marker
Bodies_m2(pd) ==
    IF Truthy(pd)
      THEN LET parsed == Parse(pd) IN
           IF parsed.ok
             THEN [text |-> parsed.text, html |-> OrElse(parsed.html, parsed.textAsHtml)]
             ELSE [text |-> ParsingFailed, html |-> ""]
      ELSE [text |-> "", html |-> ""]

\* lines 166-177: bodyText and bodyHtml out of partData
Bodies(pd) ==
    IF Truthy(pd)
      THEN LET parsed == Parse(pd) IN
           IF parsed.ok
             THEN [text |-> parsed.text, html |-> OrElse(parsed.html, parsed.textAsHtml)]
             ELSE [text |-> ParsingFailed, html |-> ""]
      ELSE [text |-> Unavailable, html |-> ""]

\* lines 166-191: decode what was fetched and push the record
Decode ==
    /\ pc = "decode"
    /\ LET item == searchResults[idx]
           b == Bodies(partData)
       IN  processedMessages' = Append(processedMessages, Record(item, b.text, b.html))
    /\ parserCalls' = IF Truthy(partData)
                        THEN Append(parserCalls, [uid |-> searchResults[idx].uid,
                                                  content |-> partData])
                        ELSE parserCalls
    /\ idx' = idx + 1
    /\ pc' = "loop"
    /\ partData' = NULL
    /\ fetchError' = NULL
    /\ UNCHANGED <<shouldFetchBodies, limit, connection, searchResults, fetches,
                   responses, raised>>
    /\ UNCHANGED <<found, failed>>
    /\ UNCHANGED endCalls
    /\ UNCHANGED callVars

\* lines 199-203: the loop is over, the success response is sent
Respond ==
    /\ pc = "loop"
    /\ idx > Len(searchResults)
    /\ responses' = Append(responses, SuccessResponse(processedMessages))
    /\ pc' = "finally"
    /\ UNCHANGED <<shouldFetchBodies, limit, connection, searchResults, idx,
                   processedMessages, partData, fetchError, fetches, raised>>
    /\ UNCHANGED <<found, failed>>
    /\ UNCHANGED <<endCalls, parserCalls>>
    /\ UNCHANGED callVars

\* mutant: the outer catch only logs
Catch_m ==
    /\ pc = "catch"
    /\ responses' = responses
    /\ pc' = "finally"
    /\ UNCHANGED <<shouldFetchBodies, limit, connection, searchResults, idx,
                   processedMessages, partData, fetchError, fetches, raised>>
    /\ UNCHANGED <<found, failed>>
    /\ UNCHANGED <<endCalls, parserCalls>>
    /\ UNCHANGED callVars

\* lines 205-209: the outer catch
Catch ==
    /\ pc = "catch"
    /\ responses' = IF ~headersSent THEN Append(responses, FailureResponse(500)) ELSE responses
    /\ pc' = "finally"
    /\ UNCHANGED <<shouldFetchBodies, limit, connection, searchResults, idx,
                   processedMessages, partData, fetchError, fetches, raised>>
    /\ UNCHANGED <<found, failed>>
    /\ UNCHANGED <<endCalls, parserCalls>>
    /\ UNCHANGED callVars

\* mutant: the finally block does not end the connection
Finally_m ==
    /\ pc = "finally"
    /\ pc' = "done"
    /\ UNCHANGED <<shouldFetchBodies, limit, connection, searchResults, idx,
                   processedMessages, partData, fetchError, fetches, responses,
                   raised, found, failed>>
    /\ UNCHANGED <<endCalls, parserCalls>>
    /\ UNCHANGED callVars

\* mutant: the connection is ended twice
Finally_m2 ==
    /\ pc = "finally"
    /\ IF connection # "null"
         THEN /\ connection' = "ended"
              /\ \E how \in {"returned", "threw"} : endCalls' = endCalls \o <<how, how>>
         ELSE UNCHANGED <<connection, endCalls>>
    /\ pc' = "done"
    /\ UNCHANGED <<shouldFetchBodies, limit, searchResults, idx, processedMessages,
                   partData, fetchError, fetches, responses, raised>>
    /\ UNCHANGED <<found, failed>>
    /\ UNCHANGED parserCalls
    /\ UNCHANGED callVars

\* lines 210-214: connection.end() when a connection was made; what end()
\* throws is swallowed by the empty catch of line 212
Finally ==
    /\ pc = "finally"
    /\ IF connection # "null"
         THEN /\ connection' = "ended"
              /\ \E how \in {"returned", "threw"} : endCalls' = Append(endCalls, how)
         ELSE UNCHANGED <<connection, endCalls>>
    /\ pc' = "done"
    /\ UNCHANGED <<shouldFetchBodies, limit, searchResults, idx, processedMessages,
                   partData, fetchError, fetches, responses, raised>>
    /\ UNCHANGED <<found, failed>>
    /\ UNCHANGED parserCalls
    /\ UNCHANGED callVars

\* ------------------------------------------------ the session and the timers
\* connection.getPartData of call i delivers data (lines 77-80)
RetrievalResolves(i) ==
    /\ fetches[i].underlying = "outstanding"
    /\ \E data \in Contents : fetches' = [fetches EXCEPT ![i] = OnData(@, data)]
    /\ UNCHANGED <<pc, shouldFetchBodies, limit, connection, searchResults, idx,
                   processedMessages, partData, fetchError, responses, raised>>
    /\ UNCHANGED <<found, failed>>
    /\ UNCHANGED <<endCalls, parserCalls>>
    /\ UNCHANGED callVars

\* connection.getPartData of call i fails (lines 81-84)
RetrievalRejects(i) ==
    /\ fetches[i].underlying = "outstanding"
    /\ \E reason \in Reasons : fetches' = [fetches EXCEPT ![i] = OnError(@, reason)]
    /\ UNCHANGED <<pc, shouldFetchBodies, limit, connection, searchResults, idx,
                   processedMessages, partData, fetchError, responses, raised>>
    /\ UNCHANGED <<found, failed>>
    /\ UNCHANGED <<endCalls, parserCalls>>
    /\ UNCHANGED callVars

\* the timer of call i fires (lines 72-74)
TimerFires(i) ==
    /\ fetches[i].timer = "armed"
    /\ fetches' = [fetches EXCEPT ![i] = OnTimer(@)]
    /\ UNCHANGED <<pc, shouldFetchBodies, limit, connection, searchResults, idx,
                   processedMessages, partData, fetchError, responses, raised>>
    /\ UNCHANGED <<found, failed>>
    /\ UNCHANGED <<endCalls, parserCalls>>
    /\ UNCHANGED callVars

\* some timer of the request fires
Timer == \E i \in 1..Len(fetches) : TimerFires(i)

Next ==
    \/ Start
    \/ ConnectResolves
    \/ ConnectRejects
    \/ OpenBoxResolves
    \/ OpenBoxRejects
    \/ SearchResolves
    \/ SearchRejects
    \/ BeginItem
    \/ AfterPrimary
    \/ AfterFallback
    \/ Decode
    \/ Respond
    \/ Catch
    \/ Finally
    \/ \E i \in 1..Len(fetches) : RetrievalResolves(i)
    \/ \E i \in 1..Len(fetches) : RetrievalRejects(i)
    \/ Timer

Spec == Init /\ [][Next]_vars

\* the handler's own steps: what the event loop runs once it can
Handler ==
    \/ Start
    \/ BeginItem
    \/ AfterPrimary
    \/ AfterFallback
    \/ Decode
    \/ Respond
    \/ Catch
    \/ Finally

\* The event loop runs a continuation that is ready and fires a timer that
\* is due; nothing makes the IMAP server answer.
FairSpec == Spec /\ WF_vars(Handler) /\ WF_vars(Timer)

\* ------------------------------------------------ findBestPart on its own
\* a call of findBestPart with any structure of the bounded family
SelectInit ==
    /\ HandlerInit
    /\ callStruct \in Structures
    /\ callPc = "called"
    /\ callResult = NullNode

\* lines 35-67 run to their return (or to the raise ThrownNode stands for)
CallReturns ==
    /\ callPc = "called"
    /\ callResult' = findBestPart(callStruct)
    /\ callPc' = "returned"
    /\ UNCHANGED callStruct
    /\ UNCHANGED handlerVars

SelectNext == CallReturns

SelectSpec == SelectInit /\ [][SelectNext]_vars

\* ------------------------------------------------------------------ helpers
FetchesOf(u) == {i \in 1..Len(fetches) : fetches[i].uid = u}
PrimaryOf(u) == {i \in FetchesOf(u) : fetches[i].kind = "primary"}
FallbackOf(u) == {i \in FetchesOf(u) : fetches[i].kind = "fallback"}
RecordsOf(u) == {m \in 1..Len(processedMessages) : processedMessages[m].uid = u}
Positions(u) == {j \in 1..Len(searchResults) : searchResults[j].uid = u}
ItemOf(u) == searchResults[CHOOSE j \in Positions(u) : TRUE]
Uids(s) == [i \in 1..Len(s) |-> s[i].uid]

\* ------------------------------------------------------------------- claims
\* C1: with body fetching enabled, a message whose primary fetch ended in a
\* timeout or a retrieval error has had exactly one fallback fetch on part
\* '1', and exactly one primary fetch, by the time its record exists.
C1_FallbackOnceAfterPrimaryFailure ==
    \A m \in 1..Len(processedMessages) :
        LET u == processedMessages[m].uid IN
        (\E i \in PrimaryOf(u) : Outcome(fetches[i]) \in {"timeout", "fetchError"})
            => /\ Cardinality(PrimaryOf(u)) = 1
               /\ Cardinality(FallbackOf(u)) = 1
               /\ \A j \in FallbackOf(u) : fetches[j].partID = DefaultPartID

\* the primary call of message u addressed a text/html part with a partID
HtmlSelected(u) ==
    LET bestPart == findBestPart(ItemOf(u).struct)
    IN  Usable(bestPart) /\ bestPart.type = "text" /\ bestPart.subtype = "html"

\* the record of message u was built from content c and no fallback was issued
ResolvedFrom(u, c) ==
    /\ FallbackOf(u) = {}
    /\ \A m \in RecordsOf(u) :
        processedMessages[m] = Record(ItemOf(u), Bodies(c).text, Bodies(c).html)

\* C2 as stated: whenever the primary fetch of a message with a text/html
\* part with a partID succeeded, whatever the content (empty content
\* included), the body comes from that content and no fallback is issued.
C2_Original ==
    \A i \in 1..Len(fetches) :
        (/\ fetches[i].kind = "primary"
         /\ HtmlSelected(fetches[i].uid)
         /\ Outcome(fetches[i]) = "success")
            => ResolvedFrom(fetches[i].uid, fetches[i].value)

\* C2 as amended: whenever the primary fetch of a message with a text/html
\* part with a partID succeeded with non-empty content, the body comes from
\* exactly that content and no fallback fetch is ever issued for the message.
C2_PrimarySuccessNoFallback ==
    \A i \in 1..Len(fetches) :
        (/\ fetches[i].kind = "primary"
         /\ HtmlSelected(fetches[i].uid)
         /\ Outcome(fetches[i]) = "success"
         /\ Truthy(fetches[i].value))
            => ResolvedFrom(fetches[i].uid, fetches[i].value)

\* a record exists for a message whose primary fetch delivered html content
C2_Witness ==
    \E i \in 1..Len(fetches) :
        /\ fetches[i].kind = "primary"
        /\ HtmlSelected(fetches[i].uid)
        /\ Outcome(fetches[i]) = "success"
        /\ fetches[i].value = "H"
        /\ RecordsOf(fetches[i].uid) # {}


\* the structure of the item gives no part to address: it is absent, or the
\* selection yields no part, or a part without a partID
NoUsablePart(item) ==
    \/ item.struct.kind = "absent"
    \/ findBestPart(item.struct).kind = "null"
    \/ findBestPart(item.struct).partID = ""

\* C3: with body fetching enabled, a message that reaches body resolution
\* and whose structure gives no part to address gets no structure-selected
\* fetch and, once processed, exactly one fetch: the fallback on part '1'.
C3_OnlyFallbackWithoutUsablePart ==
    \A j \in 1..Len(searchResults) :
        LET item == searchResults[j]
            u == item.uid
        IN  (shouldFetchBodies /\ item.hasParts /\ NoUsablePart(item))
                => /\ PrimaryOf(u) = {}
                   /\ \A i \in FetchesOf(u) : fetches[i].partID = DefaultPartID
                   /\ Cardinality(FetchesOf(u)) <= 1
                   /\ j < idx => Cardinality(FallbackOf(u)) = 1

\* a processed message without a structure, with its one fallback fetch and
\* its record
C3_Witness ==
    \E j \in 1..Len(searchResults) :
        /\ j < idx
        /\ shouldFetchBodies
        /\ searchResults[j].hasParts
        /\ searchResults[j].struct.kind = "absent"
        /\ Cardinality(FallbackOf(searchResults[j].uid)) = 1
        /\ RecordsOf(searchResults[j].uid) # {}


\* the success response holds exactly k records: those of the first k items
\* of the reversed search result (uids found, found-1, ...), in that order
NewestFirst(r, k) ==
    /\ Len(r.messages) = k
    /\ r.count = k
    /\ \A j \in 1..k : r.messages[j].uid = found + 1 - j

\* C4: for a limit k with 0 <= k < N, N the length of the search result, and
\* no item raising, the response holds exactly k records, the first k of the
\* reversed search result in order.
C4_LimitKeepsNewest ==
    \A n \in 1..Len(responses) :
        (/\ responses[n].success
         /\ Len(limit) = 1
         /\ 0 <= limit[1] /\ limit[1] < found
         /\ raised = <<>>)
            => NewestFirst(responses[n], limit[1])


\* the uids the per-item catch has logged
RaisedUids == {raised[n] : n \in 1..Len(raised)}

\* the uids of the items the loop is through with, without the raised, in order
Contributing ==
    LET through == Uids(SubSeq(searchResults, 1, idx - 1))
        Kept(u) == u \notin RaisedUids
    IN  SelectSeq(through, Kept)

\* every item the loop is through with has its record, in the newest-first
\* order, but for the items that raised, which have none; a raise never
\* reaches the outer catch, and the request ends with the success response
FaultsIsolated ==
    /\ Uids(processedMessages) = Contributing
    /\ \A u \in RaisedUids : RecordsOf(u) = {}
    /\ raised # <<>> => (pc # "catch" /\ failed = "none")
    /\ (raised # <<>> /\ pc = "done")
            => /\ Len(responses) = 1
               /\ responses[1].success
               /\ responses[1].messages = processedMessages

\* the step in which an item raises leaves the accumulated records alone and
\* goes on with the loop
RaiseKeepsRecords ==
    raised' # raised => (processedMessages' = processedMessages /\ pc' = "loop")

\* C5: an item whose processing raises contributes no record and leaves the
\* accumulated records unchanged; every other retained item contributes its
\* record in the newest-first order; the failure does not leave the per-item
\* loop, and the request ends with a success response.
C5_ItemFaultIsolated == []FaultsIsolated /\ [][RaiseKeepsRecords]_vars

\* a finished request in which one item raised and another has its record
C5_Witness ==
    /\ pc = "done"
    /\ Len(raised) = 1
    /\ Len(responses) = 1
    /\ responses[1].success
    /\ Len(responses[1].messages) = 1
    /\ Len(searchResults) = 2


\* the search has returned and the per-item loop is under way
InLoop == pc \in {"loop", "awaitPrimary", "awaitFallback", "decode"}

\* C6: once the search has returned, the batch finishes and the response is
\* sent, whether or not any part retrieval ever completes, given that due
\* timers fire and ready continuations run (FairSpec).
C6_BatchAlwaysResponds == InLoop ~> (pc = "done" /\ Len(responses) = 1)

\* a finished request, its response sent, with a part retrieval that has
\* never completed
C6_Witness ==
    /\ pc = "done"
    /\ Len(responses) = 1
    /\ responses[1].success
    /\ \E i \in 1..Len(fetches) :
        fetches[i].underlying = "outstanding" /\ Outcome(fetches[i]) = "timeout"


\* what decided the outcome of each call: the retrieval, when it finished
\* while the timer was armed, and the timer otherwise
DecidedByFirst ==
    \A i \in 1..Len(fetches) :
        LET f == fetches[i] IN
        /\ f.promise = "pending" => (f.timer = "armed" /\ f.underlying = "outstanding")
        /\ f.promise = "resolved" => (f.timer = "cleared" /\ f.underlying = "answered")
        /\ f.timer = "fired" => (Outcome(f) = "timeout" /\ f.value = TimeoutMessage)
        /\ (f.promise = "rejected" /\ f.timer # "fired")
                => (f.timer = "cleared" /\ f.underlying = "answered")

\* a step leaves the outcome of every settled call as it is
OutcomeStays ==
    \A i \in 1..Len(fetches) :
        fetches[i].promise # "pending"
            => /\ fetches'[i].promise = fetches[i].promise
               /\ fetches'[i].value = fetches[i].value
               /\ Outcome(fetches'[i]) = Outcome(fetches[i])

\* a step in which the retrieval of a timed-out call completes or fails
LateCompletion ==
    \E i \in 1..Len(fetches) :
        /\ fetches[i].timer = "fired"
        /\ fetches'[i].underlying # fetches[i].underlying

\* C7: a bounded part fetch has one outcome, set by whichever of the timer and
\* the retrieval finishes first; once the timer has fired the outcome is
\* timeout, and the retrieval completing or failing later changes neither an
\* outcome nor a record nor the responses nor the handler's locals.
C7_OneOutcomePerFetch ==
    /\ []DecidedByFirst
    /\ [][OutcomeStays]_vars
    /\ [][LateCompletion =>
            UNCHANGED <<processedMessages, responses, partData, fetchError, pc, idx, raised>>]_vars

\* the retrieval of a timed-out call was answered after the timer fired
C7_Witness ==
    \E i \in 1..Len(fetches) :
        /\ fetches[i].timer = "fired"
        /\ fetches[i].underlying = "answered"
        /\ Outcome(fetches[i]) = "timeout"
        /\ RecordsOf(fetches[i].uid) # {}


\* C8 as stated: whenever a response has been sent for a request that opened
\* a session, the session has been closed.
C8_Original == (headersSent /\ connection # "null") => connection = "ended"

\* C8 as amended: for a request that opened a session the response is sent
\* first and the session is closed afterwards: the session is closed only
\* once the response has been sent, and it is closed when the handler ends.
C8_ClosedAfterResponse ==
    /\ connection = "ended" => headersSent
    /\ pc = "done" => connection # "open"

\* a finished request whose session was opened and closed
C8_Witness ==
    /\ pc = "done"
    /\ connection = "ended"
    /\ Len(responses) = 1

\* the calls whose retrieval the session has not answered
Outstanding == {i \in 1..Len(fetches) : fetches[i].underlying = "outstanding"}

\* C9 as stated: no retrieval is issued while an earlier one is outstanding,
\* not after a timeout either: at most one retrieval is ever outstanding.
C9_Original == Cardinality(Outstanding) <= 1

\* C9 as amended: a retrieval is issued only once every earlier bounded fetch
\* has been settled, by completion, error or timeout; an earlier retrieval
\* that is still outstanding then is one whose wait a timeout has ended.
C9_OneAwaitedFetch ==
    \A i \in 1..Len(fetches) :
        i < Len(fetches)
            => /\ fetches[i].promise # "pending"
               /\ i \in Outstanding => Outcome(fetches[i]) = "timeout"

\* a retrieval issued while the retrieval of a timed-out call is outstanding
C9_Witness ==
    \E i, j \in Outstanding :
        /\ i < j
        /\ Outcome(fetches[i]) = "timeout"
        /\ fetches[j].promise = "pending"

\* C10: a failure response comes from a missing configuration (400) or from
\* a failed connect, openBox or search (500) only; once the search has
\* succeeded nothing reaches the outer catch and the request ends with the
\* success response, whatever happened to the items.
C10_OnlyConfigOrTransportFails ==
    /\ \A n \in 1..Len(responses) :
        /\ ~responses[n].success
                => failed \in {"config", "connect", "openBox", "search"}
        /\ responses[n].status = 400 <=> failed = "config"
        /\ responses[n].status = 500 <=> failed \in {"connect", "openBox", "search"}
        /\ responses[n].status = 200 <=> responses[n].success
    /\ InLoop => failed = "none"
    /\ pc = "catch" => failed \in {"connect", "openBox", "search"}
    /\ (pc \in {"finally", "done"} /\ failed = "none")
            => (Len(responses) = 1 /\ responses[1].success)

\* a success response to a request in which an item raised and a part fetch
\* timed out or failed
C10_Witness ==
    /\ pc = "done"
    /\ Len(responses) = 1
    /\ responses[1].success
    /\ raised # <<>>
    /\ \E i \in 1..Len(fetches) : Outcome(fetches[i]) \in {"timeout", "fetchError"}


\* -------------------------------------------- claims on findBestPart alone
IsHtml(n) == n.kind = "obj" /\ n.type = "text" /\ n.subtype = "html"
IsPlain(n) == n.kind = "obj" /\ n.type = "text" /\ n.subtype = "plain"

RECURSIVE Faulty(_)
\* the structure holds a malformed node: null as an element of an array, or a
\* parts value that leads back to its owner
Faulty(n) ==
    \/ n.kind = "cycle"
    \/ n.kind = "arr" /\ \E i \in 1..Len(n.parts) : n.parts[i].kind = "null" \/ Faulty(n.parts[i])
    \/ n.kind = "obj" /\ Len(n.parts) = 1 /\ Faulty(n.parts[1])

RECURSIVE PreOrder(_)
RECURSIVE PreOrderEach(_, _)
\* the depth-first pre-order flattening: every part descriptor, a parent
\* before its parts, the parts in their order; what is no descriptor
\* contributes nothing
PreOrder(n) ==
    IF n.kind = "arr" THEN PreOrderEach(n.parts, 1)
    ELSE IF n.kind = "obj"
        THEN <<n>> \o (IF Len(n.parts) = 1 THEN PreOrder(n.parts[1]) ELSE <<>>)
    ELSE <<>>

PreOrderEach(elems, i) ==
    IF i > Len(elems) THEN <<>> ELSE PreOrder(elems[i]) \o PreOrderEach(elems, i + 1)

\* the first element of flat of the given sort, NullNode when there is none
FirstOf(flat, IsSort(_)) ==
    LET hits == {i \in 1..Len(flat) : IsSort(flat[i])}
    IN  IF hits = {} THEN NullNode
        ELSE flat[CHOOSE i \in hits : \A j \in hits : i <= j]

FaultInside(n) == n.kind = "obj" /\ Faulty(n)

\* C12: a traversal error inside one subtree removes that subtree's
\* contribution only: a text/html part that stands first in the root array,
\* ahead of an element with a malformed node inside its subtree, is still in
\* the flat list and is what selection returns.
C12_FaultKeepsOutsideParts ==
    (/\ callPc = "returned"
     /\ callStruct.kind = "arr"
     /\ Len(callStruct.parts) >= 2
     /\ IsHtml(callStruct.parts[1])
     /\ ~Faulty(callStruct.parts[1])
     /\ \E j \in 2..Len(callStruct.parts) : FaultInside(callStruct.parts[j]))
        => callResult = callStruct.parts[1]

\* C13: for every structure value findBestPart returns to its caller and
\* never raises; an absent or null root gives no selection, and so does a
\* structure without a text/html and without a text/plain part.
C13_NeverRaises ==
    callPc = "returned"
        => /\ callResult.kind # "thrown"
           /\ callStruct.kind \in {"absent", "null"} => callResult = NullNode
           /\ (\A i \in 1..Len(PreOrder(callStruct)) :
                    ~IsHtml(PreOrder(callStruct)[i]) /\ ~IsPlain(PreOrder(callStruct)[i]))
                => callResult = NullNode

\* a returned call on an array that mixes a primitive with a node whose parts
\* leads back to its owner
C13_Witness ==
    /\ callPc = "returned"
    /\ callStruct.kind = "arr"
    /\ Len(callStruct.parts) = 2
    /\ callStruct.parts[1] = PrimNode
    /\ callStruct.parts[2] = Obj("multipart", "mixed", "", <<CycleNode>>)
    /\ callResult = NullNode



\* ---------------------------------------------- claims on the handler, again
\* C14: when the body-fetch flag of the request is false no part retrieval,
\* primary or fallback, is issued for any message of the request and no
\* content is decoded; every retained item that does not raise contributes
\* its record, which carries the two skip markers.
C14_NoFetchWhenBodiesOff ==
    ~shouldFetchBodies
        => /\ fetches = <<>>
           /\ parserCalls = <<>>
           /\ pc \notin {"awaitPrimary", "awaitFallback", "decode"}
           /\ Uids(processedMessages) = Contributing
           /\ \A m \in 1..Len(processedMessages) :
                /\ processedMessages[m].bodyText = NoTextBody
                /\ processedMessages[m].bodyHtml = NoHtml

\* a finished request with the flag false: one item with a structure that
\* holds an html part has its record, another raised
C14_Witness ==
    /\ ~shouldFetchBodies
    /\ pc = "done"
    /\ Len(searchResults) = 2
    /\ Len(raised) = 1
    /\ Len(responses) = 1
    /\ Len(responses[1].messages) = 1
    /\ \E j \in 1..2 : searchResults[j].struct = HtmlStruct /\ searchResults[j].hasParts



\* the simpleParser calls made for message u
ParserCallsOf(u) == {n \in 1..Len(parserCalls) : parserCalls[n].uid = u}

\* C15: when content was retrieved for a message and decoding it fails, the
\* failure stays local: the message is not raised, it contributes one record
\* whose bodyText is the decoding-failure marker and whose bodyHtml is empty,
\* and every other item the loop is through with has its record as well.
C15_DecodeFailureLocal ==
    /\ \A n \in 1..Len(parserCalls) :
        LET u == parserCalls[n].uid
            c == parserCalls[n].content
        IN  ~Parse(c).ok
                => /\ \E i \in FetchesOf(u) :
                        Outcome(fetches[i]) = "success" /\ fetches[i].value = c
                   /\ u \notin RaisedUids
                   /\ Cardinality(RecordsOf(u)) = 1
                   /\ \A m \in RecordsOf(u) :
                        /\ processedMessages[m].bodyText = ParsingFailed
                        /\ processedMessages[m].bodyHtml = ""
    /\ parserCalls # <<>> => (pc # "catch" /\ failed = "none")
    /\ Uids(processedMessages) = Contributing

\* a finished request of two messages: decoding failed for the first, the
\* second was decoded and has its text and html
C15_Witness ==
    /\ pc = "done"
    /\ Len(responses) = 1
    /\ Len(parserCalls) = 2
    /\ parserCalls[1].content = "X"
    /\ parserCalls[2].content = "H"
    /\ Len(responses[1].messages) = 2
    /\ responses[1].messages[1].bodyText = ParsingFailed
    /\ responses[1].messages[2].bodyText = "text(H)"
    /\ responses[1].messages[2].bodyHtml = "html(H)"

\* C16: with body fetching enabled, a processed message all of whose fetch
\* attempts ended in a timeout or an error contributes one record, whose
\* bodyText is the unavailable-content marker and whose bodyHtml is empty,
\* and nothing was handed to the decoder for it.
C16_UnresolvedMarked ==
    \A j \in 1..Len(searchResults) :
        LET u == searchResults[j].uid IN
        (/\ j < idx
         /\ shouldFetchBodies
         /\ FetchesOf(u) # {}
         /\ \A i \in FetchesOf(u) : Outcome(fetches[i]) \in {"timeout", "fetchError"})
            => /\ ParserCallsOf(u) = {}
               /\ Cardinality(RecordsOf(u)) = 1
               /\ \A m \in RecordsOf(u) :
                    /\ processedMessages[m].bodyText = Unavailable
                    /\ processedMessages[m].bodyHtml = ""

\* a processed message whose primary fetch failed with an empty message and
\* whose fallback fetch timed out, and another whose only fetch timed out
C16_Witness ==
    /\ pc = "done"
    /\ \E u \in 1..MaxItems :
        /\ PrimaryOf(u) # {} /\ FallbackOf(u) # {}
        /\ \A i \in PrimaryOf(u) : Outcome(fetches[i]) = "fetchError"
        /\ \A i \in FallbackOf(u) : Outcome(fetches[i]) = "timeout"
        /\ \E m \in RecordsOf(u) : processedMessages[m].bodyText = Unavailable
    /\ \E u \in 1..MaxItems :
        /\ Cardinality(FetchesOf(u)) = 1
        /\ \A i \in FetchesOf(u) : Outcome(fetches[i]) = "timeout"
        /\ \E m \in RecordsOf(u) : processedMessages[m].bodyText = Unavailable



\* C17: a request whose connection configuration is missing is answered with
\* the failure response at once and the handler is over: no connect, no
\* openBox, no search and no part retrieval is made, no session exists.
C17_ConfigErrorOpensNothing ==
    /\ failed = "config"
            => /\ pc = "done"
               /\ responses = <<FailureResponse(400)>>
               /\ connection = "null"
               /\ endCalls = <<>>
               /\ found = 0
               /\ searchResults = <<>>
               /\ fetches = <<>>
    /\ pc \in {"connecting", "opening", "searching"} => failed = "none"

\* the request was answered for its missing configuration
C17_Witness ==
    /\ failed = "config"
    /\ pc = "done"
    /\ Len(responses) = 1
    /\ responses[1].status = 400

\* C18: for every message at most one primary and at most one fallback
\* retrieval are issued, at most two in all, and the primary is issued before
\* the fallback, whatever the outcomes.
C18_AtMostTwoFetches ==
    \A i \in 1..Len(fetches) :
        LET u == fetches[i].uid IN
        /\ fetches[i].kind \in {"primary", "fallback"}
        /\ Cardinality(PrimaryOf(u)) <= 1
        /\ Cardinality(FallbackOf(u)) <= 1
        /\ Cardinality(FetchesOf(u)) <= 2
        /\ \A p \in PrimaryOf(u) : \A q \in FallbackOf(u) : p < q

\* a processed message with a primary retrieval that failed and a fallback
\* retrieval after it that failed as well
C18_Witness ==
    \E p, q \in 1..Len(fetches) :
        /\ p < q
        /\ fetches[p].uid = fetches[q].uid
        /\ fetches[p].kind = "primary" /\ Outcome(fetches[p]) = "fetchError"
        /\ fetches[q].kind = "fallback" /\ Outcome(fetches[q]) \in {"timeout", "fetchError"}
        /\ RecordsOf(fetches[p].uid) # {}

\* bodyText and bodyHtml of a record are strings
StringBodies(r) == r.bodyText # NULL /\ r.bodyHtml # NULL

\* C19: every record, accumulated or in a success response, has bodyText and
\* bodyHtml present as strings, never null, on every path.
C19_BodiesAreStrings ==
    /\ \A m \in 1..Len(processedMessages) : StringBodies(processedMessages[m])
    /\ \A n \in 1..Len(responses) :
        \A m \in 1..Len(responses[n].messages) : StringBodies(responses[n].messages[m])

\* a success response with the record of a message whose decoded content
\* had neither text nor html, and the record of an undecodable one
C19_Witness ==
    /\ Len(responses) = 1
    /\ responses[1].success
    /\ Len(responses[1].messages) = 2
    /\ Len(parserCalls) = 2
    /\ parserCalls[1].content = "N"
    /\ parserCalls[2].content = "X"
    /\ responses[1].messages[1].bodyText = ""
    /\ responses[1].messages[1].bodyHtml = ""

\* the session is closed at most once and only when one was opened; once the
\* handler is over it was closed if it was opened; however end() ended, the
\* handler is over with its one response
ClosedOnce ==
    /\ Len(endCalls) <= 1
    /\ connection = "null" => endCalls = <<>>
    /\ connection = "ended" <=> Len(endCalls) = 1
    /\ (pc = "done" /\ connection # "null") => Len(endCalls) = 1
    /\ endCalls # <<>> => (pc = "done" /\ Len(responses) = 1)

\* a step on a closed session issues no retrieval and sends no response
NothingAfterClose ==
    endCalls # <<>> => (Len(fetches') = Len(fetches) /\ responses' = responses /\ pc' = pc)

\* C20: for a request whose connect succeeded the session's close is invoked
\* exactly once, on every path; a failure of the close is swallowed; no part
\* retrieval is issued on the session after its close.
C20_ClosedExactlyOnce == []ClosedOnce /\ [][NothingAfterClose]_vars

\* a request whose openBox failed: answered with the failure response, its
\* session closed by an end() that threw
C20_Witness ==
    /\ pc = "done"
    /\ failed = "openBox"
    /\ endCalls = <<"threw">>
    /\ Len(responses) = 1
    /\ responses[1].status = 500



\* the handler has run to its end, or has only the finally block left
HandlerOver == pc \in {"finally", "done"}

\* at most one response is ever sent; a handler that is over has sent exactly
\* one; a handler that has sent none is not stuck: it has a step to take, a
\* timer of the fetch it awaits is due, or it awaits connect, openBox or search
OneResponse ==
    /\ Len(responses) <= 1
    /\ HandlerOver => Len(responses) = 1
    /\ Len(responses) = 0
            => \/ pc \in {"connecting", "opening", "searching"}
               \/ ENABLED Handler
               \/ ENABLED Timer
    /\ \A n \in 1..Len(responses) :
        /\ responses[n].success
                => /\ responses[n].count = Len(responses[n].messages)
                   /\ responses[n].messages = processedMessages
        /\ ~responses[n].success => responses[n].status \in {400, 500}

\* a response, once sent, is neither followed by another nor changed
ResponseSentOnce == responses # <<>> => responses' = responses

\* C21: every request the handler takes up gets exactly one response, never
\* two and, once the handler is over, never none; in a success response the
\* count is the number of records of its message list.
C21_ExactlyOneResponse == []OneResponse /\ [][ResponseSentOnce]_vars

\* a finished request answered once, with success, count 2 and two records
C21_Witness ==
    /\ pc = "done"
    /\ Len(responses) = 1
    /\ responses[1].success
    /\ responses[1].count = 2
    /\ Len(responses[1].messages) = 2
    /\ raised = <<>>


====
